---------------------------- MODULE Spec2Model ----------------------------
(***************************************************************************)
(* State machine of the data-orchestration pipeline of src/src/app.tsx:    *)
(* the quote-list fetch at mount (fetchCoins), the detail effect that runs *)
(* on every change of `selected` or `coins` (fetchChartAndIndicatorsData), *)
(* with its OHLCV, AI-analysis and news requests, and the indicator        *)
(* snapshot it derives from the close prices.                              *)
(*                                                                         *)
(* React state is one variable per useState cell.  A handler or effect     *)
(* runs to its next `await` as one step; a network response is a step of   *)
(* its own, taken in any order relative to the other requests in flight.   *)
(*                                                                         *)
(* JavaScript values are tagged records ([t |-> "number", v |-> n], ...);  *)
(* strings are sequences of text segments, so that a template literal is a *)
(* concatenation and "contains" is a test on segments.  Numbers that the   *)
(* code holds as floats are fixed-point integers, SCALE units to one; a    *)
(* close price that is no numeral parses to NaN.  Prices are counted in    *)
(* hundred-thousandths, the five decimals of a quote, so that the fourth   *)
(* decimal kept by toFixed(4) is ten price units.  IndicatorSpec is the    *)
(* pipeline with a backend whose OHLCV history may carry a price that is   *)
(* no numeral; SeriesSpec is the pipeline of one coin with a backend that  *)
(* serves close-price series of every length and shape the indicator       *)
(* claims speak of.                                                        *)
(*                                                                         *)
(* The display layer (language, translation of the summary and of the     *)
(* news titles, typewriter) reads the pipeline's state, writes none of it. *)
(* Data flows one way: pipeline -> translation -> typewriter.  Each         *)
(* specification holds the pipeline and the display effects its claims are *)
(* about, and leaves the cells downstream of them as constructed: Spec is  *)
(* the pipeline alone, TranslationSpec adds the language and the two       *)
(* translation effects, TypewriterSpec the language, the translation of    *)
(* the summary and the typewriter.  With display effects a state is a      *)
(* committed render: the effects whose dependencies changed in a commit    *)
(* are due (`effects`), they run together in source order, each reading    *)
(* the values of that render, before the next event is handled, and their  *)
(* writes make the next commit.                                            *)
(***************************************************************************)
EXTENDS Integers, Sequences, FiniteSets, TLC

\* Bounds: the detail cycles started in a session, the length of a quote list,
\* the language toggles of a session, the cancelled translation runs still
\* awaiting their responses when the user or the pipeline's backend acts.
MaxCycles == 2
MaxCoins == 3
MaxToggles == 3
MaxStale == 1

\* Bound of SeriesSpec: the close-price histories of every length up to
\* MaxPrices are served, besides those at the two SMA periods.
MaxPrices == 36

\* Fixed-point unit of the indicator arithmetic (four decimals).
SCALE == 10000

-----------------------------------------------------------------------------
(* JavaScript values *)

Null == [t |-> "null"]
Undefined == [t |-> "undefined"]
NaN == [t |-> "NaN"]
Num(n) == [t |-> "number", v |-> n]
Str(s) == [t |-> "string", v |-> s]
NA == Str(<<"N/A">>)

\* The string that spells the number n, as Twelve Data writes a price.
Numeral(n) == [t |-> "numeral", v |-> n]

\* x is a finite number.
IsNumber(x) == x.t = "number"

\* typeof x === 'number': true of NaN as well.
TypeofNumber(x) == x.t \in {"number", "NaN"}

\* parseFloat(x): the number a numeral spells, NaN for any other value.
parseFloat(x) == IF x.t = "numeral" THEN Num(x.v) ELSE NaN

\* JavaScript truthiness of a tagged value.
Truthy(x) ==
    CASE x.t = "number" -> x.v # 0
      [] x.t = "string" -> x.v # <<>>
      [] OTHER -> FALSE

\* a || b
OrElse(a, b) == IF Truthy(a) THEN a ELSE b

\* text contains the segments of part, contiguously
Contains(text, part) ==
    \E i \in 0..(Len(text) - Len(part)) :
        \A k \in 1..Len(part) : text[i + k] = part[k]

\* the sequence f, written out
Tuple(f) == SubSeq(f, 1, Len(f))

RECURSIVE SumRange(_, _, _)
\* s[lo] + ... + s[hi], by halves
SumRange(s, lo, hi) ==
    IF lo > hi THEN 0
    ELSE IF lo = hi THEN s[lo]
    ELSE SumRange(s, lo, (lo + hi) \div 2) + SumRange(s, (lo + hi) \div 2 + 1, hi)

SumSeq(s) == SumRange(s, 1, Len(s))

\* n / d rounded to the nearest integer, halves away from zero (toFixed).
RoundDiv(n, d) ==
    IF n >= 0 THEN (2 * n + d) \div (2 * d)
    ELSE -((2 * (-n) + d) \div (2 * d))

-----------------------------------------------------------------------------
(* The text constants of the component *)

aiSummaryPlaceholder == <<"AI analysis loading...">>
SelectCoinText == <<"Please select a coin to view data.">>
NoDataText == <<"No data to analyze.">>
NoOhlcvText == <<"No OHLCV data found for this coin from Twelve Data.">>
AiErrorPrefix == <<"AI analysis error: ">>

-----------------------------------------------------------------------------
(* The backend: what each endpoint may answer *)

Symbols == {"BTC", "ETH", "XRP"}

\* One entry of the quote-list JSON.  XRP comes without a rank.
RawCoin(sym) ==
    [symbol |-> sym,
     currentPrice |-> Num(CASE sym = "BTC" -> 100 [] sym = "ETH" -> 50 [] OTHER -> 0),
     volume24h |-> Num(7),
     percentChange24h |-> Num(CASE sym = "BTC" -> 2 [] OTHER -> -1),
     marketCap |-> Num(900),
     cmcRank |-> CASE sym = "BTC" -> Num(1) [] sym = "ETH" -> Num(2) [] OTHER -> Undefined]

RECURSIVE SeqsUpTo(_, _)
\* the sequences of at most n distinct elements of S
SeqsUpTo(S, n) ==
    IF n = 0 THEN {<<>>}
    ELSE LET shorter == SeqsUpTo(S, n - 1)
         IN shorter \cup
            {Append(p[1], p[2]) :
                p \in {q \in shorter \X S :
                          /\ Len(q[1]) = n - 1
                          /\ \A i \in 1..Len(q[1]) : q[1][i] # q[2]}}

\* The quote lists the backend may return, in any order.
QuoteLists == {[i \in 1..Len(s) |-> RawCoin(s[i])] : s \in SeqsUpTo(Symbols, MaxCoins)}

\* A response that is no success: the transport failed, or the status is not OK.
NetworkError == [kind |-> "network", message |-> <<"Failed to fetch">>]
HttpError == [kind |-> "http", status |-> "500", error |-> <<"Internal Server Error">>]
Failures == {NetworkError, HttpError}

\* e.message of the Error thrown for a failed request (`prefix` names the API).
ErrorMessage(prefix, f) ==
    IF f.kind = "network" THEN f.message
    ELSE <<prefix, f.status, " - ">> \o f.error


-----------------------------------------------------------------------------
(* fetchCoins: the mapping and the sort of the quote list *)

\* One element of fetchedCoins.  The fields read by no logic (id, name, logo,
\* the 1h and 7d changes) are left out.
MapCoin(coin) ==
    [symbol |-> coin.symbol,
     currentPrice |-> OrElse(coin.currentPrice, Num(0)),
     volume24h |-> OrElse(coin.volume24h, Num(0)),
     percentChange24h |-> OrElse(coin.percentChange24h, Num(0)),
     marketCap |-> OrElse(coin.marketCap, Num(0)),
     cmcRank |-> OrElse(coin.cmcRank, NA)]

\* json.map(...)
MapCoins(json) == [i \in 1..Len(json) |-> MapCoin(json[i])]

\* (a, b) => a.cmcRank - b.cmcRank: a number, or NaN when a rank is 'N/A'.
RankCompare(a, b) ==
    IF IsNumber(a.cmcRank) /\ IsNumber(b.cmcRank)
    THEN Num(a.cmcRank.v - b.cmcRank.v)
    ELSE NaN

\* What Array.prototype.sort makes of the comparator's result: NaN counts as +0.
SortOrder(a, b) ==
    LET v == RankCompare(a, b) IN IF v.t = "NaN" THEN 0 ELSE v.v

\* ECMA-262's consistent comparator, over the elements of s.
ConsistentComparator(s) ==
    LET E == {s[i] : i \in 1..Len(s)}
        eq(a, b) == SortOrder(a, b) = 0
        lt(a, b) == SortOrder(a, b) < 0
        gt(a, b) == SortOrder(a, b) > 0
    IN \A a, b, c \in E :
          /\ eq(a, a)
          /\ eq(a, b) => eq(b, a)
          /\ (eq(a, b) /\ eq(b, c)) => eq(a, c)
          /\ lt(a, b) => gt(b, a)
          /\ gt(a, b) => lt(b, a)
          /\ (lt(a, b) /\ lt(b, c)) => lt(a, c)
          /\ (gt(a, b) /\ gt(b, c)) => gt(a, c)

\* x put behind the elements of the sorted s that do not come after it.
InsertByRank(s, x) ==
    LET k == Cardinality({i \in 1..Len(s) : SortOrder(s[i], x) <= 0})
    IN SubSeq(s, 1, k) \o <<x>> \o SubSeq(s, k + 1, Len(s))

RECURSIVE StableSortByRank(_)
StableSortByRank(s) ==
    IF s = <<>> THEN <<>>
    ELSE InsertByRank(StableSortByRank(SubSeq(s, 1, Len(s) - 1)), s[Len(s)])

Reorderings(s) ==
    {[i \in 1..Len(s) |-> s[p[i]]] :
        p \in {q \in [1..Len(s) -> 1..Len(s)] :
                  \A i, j \in 1..Len(s) : q[i] = q[j] => i = j}}

\* fetchedCoins.sort((a, b) => a.cmcRank - b.cmcRank): the stable sort under a
\* consistent comparator; with an inconsistent one (a missing rank compares equal
\* to two ranks that differ) the order is implementation-defined.
SortOutcomes(s) ==
    IF ConsistentComparator(s) THEN {StableSortByRank(s)} ELSE Reorderings(s)

-----------------------------------------------------------------------------
(* The OHLCV history of each symbol, as the backend returns it *)

\* close prices, oldest first
Closes(sym) ==
    CASE sym = "BTC" -> <<10, 12, 11, 13, 15, 14, 16, 18, 17, 19, 21, 20, 22, 24, 23>>
      [] sym = "ETH" -> [i \in 1..35 |-> 50]
      [] OTHER -> <<3, 4>>

\* The `values` array of the response: newest first, as Twelve Data orders it.
History(sym) ==
    LET c == Closes(sym)
        n == Len(c)
    IN [i \in 1..n |-> [datetime |-> n + 1 - i, close |-> Numeral(c[n + 1 - i])]]

\* SMA.calculate({ values: closePrices, period: 50 }) and ({ ..., period: 200 })
Sma50Period == 50
Sma200Period == 200
GapLength == Sma50Period

\* A `values` array of GapLength days, newest first, whose newest entry
\* carries no close price.
GappedHistory ==
    [i \in 1..GapLength |->
        [datetime |-> GapLength + 1 - i,
         close |-> IF i = 1 THEN Undefined ELSE Numeral(40 + ((GapLength - i) % 5))]]

\* The body of an OK response to the OHLCV request that carries the gap.
GappedBodies == {[values |-> [t |-> "array", v |-> GappedHistory]]}

\* The bodies of an OK response to the OHLCV request for sym.
OhlcvBodies(sym) ==
    {[values |-> [t |-> "array", v |-> History(sym)]],
     [values |-> [t |-> "array", v |-> <<>>]],
     [values |-> Undefined]}

\* The close prices of a series of n days, oldest first: flat at p, rising or
\* falling by one a day, or alternating between two prices.
SeriesShapes == {"flat", "rising", "falling", "zigzag"}
FlatPrices == {50, 46}
SeriesCloses(shape, p, n) ==
    [k \in 1..n |-> CASE shape = "flat" -> p
                     [] shape = "rising" -> p + k
                     [] shape = "falling" -> p + n - k
                     [] OTHER -> p + (k % 2)]

\* The lengths served: every one up to MaxPrices, and those at the periods
\* of the two moving averages (outputsize = 200 is the longest).
SeriesLengths ==
    (1..MaxPrices) \cup {Sma50Period - 1, Sma50Period, Sma200Period - 1, Sma200Period}

\* The `values` array of the response for a series: newest first.
SeriesHistory(c) ==
    [i \in 1..Len(c) |-> [datetime |-> Len(c) + 1 - i, close |-> Numeral(c[Len(c) + 1 - i])]]

\* The bodies of an OK response to the OHLCV request that carry a series.
SeriesBodies ==
    {[values |-> [t |-> "array", v |-> SeriesHistory(SeriesCloses(shape, p, n))]] :
        shape \in SeriesShapes, p \in FlatPrices, n \in SeriesLengths}

\* ohlcvJson && ohlcvJson.values && ohlcvJson.values.length > 0
HasValues(json) == json.values.t = "array" /\ Len(json.values.v) > 0

\* history.sort((a, b) => new Date(a.datetime).getTime() - new Date(b.datetime).getTime()):
\* a goes before b when the difference is negative; entries of equal datetime
\* keep their order.
SortByDatetime(s) == SortSeq(s, LAMBDA a, b : a.datetime - b.datetime < 0)

\* history.map((data) => new Date(data.datetime).toLocaleDateString())
Labels(history) == [k \in 1..Len(history) |-> history[k].datetime]

\* history.map((data) => parseFloat(data.close))
ClosePrices(history) == Tuple([k \in 1..Len(history) |-> parseFloat(history[k].close)])

-----------------------------------------------------------------------------
(* The indicators (technicalindicators' RSI, MACD and SMA), in fixed point *)

RsiPeriod == 14
FastPeriod == 12
SlowPeriod == 26
SignalPeriod == 9

Front(s) == SubSeq(s, 1, Len(s) - 1)
Last(s) == s[Len(s)]
Max(a, b) == IF a >= b THEN a ELSE b

\* The digits past the kept ones cut off.
ToFixedTruncated(x, unit) == (x \div unit) * unit

\* x.toFixed(digits) read back by parseFloat: x in SCALE units, rounded to a
\* multiple of `unit`.
ToFixed(x, unit) == RoundDiv(x, unit) * unit

\* The units of toFixed(2) of an RSI (hundredths of one) and of toFixed(4) of
\* a price-valued indicator (ten price units).
TwoDecimals == SCALE \div 100
FourDecimals == 10 * SCALE

\* The prices as integers, 0 standing where the price is NaN.
Finite(values) ==
    Tuple([k \in 1..Len(values) |-> IF IsNumber(values[k]) THEN values[k].v ELSE 0])

\* One of the first n prices is NaN.
NaNWithin(values, n) == \E k \in 1..n : ~IsNumber(values[k])

\* SMA.calculate({values, period}): one mean per full window, taken from a
\* running sum, which is NaN from the first NaN price on.
SmaCalculate(values, period) ==
    LET v == Finite(values)
    IN [j \in 1..Max(0, Len(values) - period + 1) |->
           IF NaNWithin(values, j + period - 1) THEN NaN
           ELSE Num(RoundDiv(SumRange(v, j, j + period - 1) * SCALE, period))]

RECURSIVE EmaRest(_, _, _, _, _)
\* The loop of EMA over values[lo..hi]: `out` holds the averages up to the
\* value before lo; each further one is prev + (value - prev) * 2 / (period + 1).
\* The range is walked by halves, the left half finished before the right.
EmaRest(values, period, lo, hi, out) ==
    IF lo > hi THEN out
    ELSE IF lo = hi
    THEN Append(out, Last(out) + RoundDiv((values[lo] - Last(out)) * 2, period + 1))
    ELSE LET left == EmaRest(values, period, lo, (lo + hi) \div 2, out)
         IN IF Len(left) = 0 THEN left
            ELSE EmaRest(values, period, (lo + hi) \div 2 + 1, hi, left)

\* EMA.calculate over values in SCALE units: the mean of the first window, then
\* the loop.
EmaCalculate(values, period) ==
    IF Len(values) < period THEN <<>>
    ELSE EmaRest(values, period, period + 1, Len(values),
                 <<RoundDiv(SumRange(values, 1, period), period)>>)

\* MACD.calculate with the histogram taken against a signal of 0 until the
\* signal exists.
MacdCalculateEagerHistogram(values) ==
    LET n == Len(values)
        gaps == {k \in 1..n : ~IsNumber(values[k])}
        clean == IF gaps = {} THEN n ELSE (CHOOSE k \in gaps : \A g \in gaps : k <= g) - 1
        scaled == Tuple([i \in 1..clean |-> values[i].v * SCALE])
        fast == EmaCalculate(scaled, FastPeriod)
        slow == EmaCalculate(scaled, SlowPeriod)
        line == Tuple([j \in 1..Len(slow) |-> fast[j + SlowPeriod - FastPeriod] - slow[j]])
        signal == EmaCalculate(line, SignalPeriod)
        Output(j) ==
            IF j >= SignalPeriod
            THEN [MACD |-> Num(line[j]),
                  signal |-> IF signal[j - SignalPeriod + 1] = 0 THEN Undefined
                             ELSE Num(signal[j - SignalPeriod + 1]),
                  histogram |-> Num(line[j] - signal[j - SignalPeriod + 1])]
            ELSE [MACD |-> Num(line[j]), signal |-> Undefined, histogram |-> Num(line[j])]
    IN [j \in 1..Max(0, n - SlowPeriod + 1) |->
           IF Len(slow) = 0
           THEN [MACD |-> Undefined, signal |-> Undefined, histogram |-> Undefined]
           ELSE Output(IF j <= Len(slow) THEN j ELSE Len(slow))]

\* MACD.calculate: one output per price from the SlowPeriod-th on.  The signal
\* and the histogram are undefined until SignalPeriod MACD values exist, and
\* the signal is reported as `signal ? signal : undefined`.  From the first NaN
\* price on both averages are NaN, `if (fast && slow)` is skipped and the
\* output repeats the last one computed (all undefined when there is none).
MacdCalculate(values) ==
    LET n == Len(values)
        gaps == {k \in 1..n : ~IsNumber(values[k])}
        clean == IF gaps = {} THEN n ELSE (CHOOSE k \in gaps : \A g \in gaps : k <= g) - 1
        scaled == Tuple([i \in 1..clean |-> values[i].v * SCALE])
        fast == EmaCalculate(scaled, FastPeriod)
        slow == EmaCalculate(scaled, SlowPeriod)
        line == Tuple([j \in 1..Len(slow) |-> fast[j + SlowPeriod - FastPeriod] - slow[j]])
        signal == EmaCalculate(line, SignalPeriod)
        Output(j) ==
            IF j >= SignalPeriod
            THEN [MACD |-> Num(line[j]),
                  signal |-> IF signal[j - SignalPeriod + 1] = 0 THEN Undefined
                             ELSE Num(signal[j - SignalPeriod + 1]),
                  histogram |-> Num(line[j] - signal[j - SignalPeriod + 1])]
            ELSE [MACD |-> Num(line[j]), signal |-> Undefined, histogram |-> Undefined]
    IN [j \in 1..Max(0, n - SlowPeriod + 1) |->
           IF Len(slow) = 0
           THEN [MACD |-> Undefined, signal |-> Undefined, histogram |-> Undefined]
           ELSE Output(IF j <= Len(slow) THEN j ELSE Len(slow))]

RECURSIVE WilderRest(_, _, _, _, _)
\* The loop of AverageGain / AverageLoss over changes[lo..hi]: `out` holds the
\* averages up to the change before lo; each further one is
\* (prev * (period - 1) + change) / period.  The range is walked by halves,
\* the left half finished before the right.
WilderRest(changes, period, lo, hi, out) ==
    IF lo > hi THEN out
    ELSE IF lo = hi
    THEN Append(out, (Last(out) * (period - 1) + changes[lo] * SCALE) \div period)
    ELSE LET left == WilderRest(changes, period, lo, (lo + hi) \div 2, out)
         IN IF Len(left) = 0 THEN left
            ELSE WilderRest(changes, period, (lo + hi) \div 2 + 1, hi, left)

\* AverageGain / AverageLoss over the changes (in price units), one average per
\* change from the period-th on, in SCALE units: the mean of the first window,
\* then the loop.
WilderAverage(changes, period) ==
    IF Len(changes) < period THEN <<>>
    ELSE WilderRest(changes, period, period + 1, Len(changes),
                    <<(SumRange(changes, 1, period) * SCALE) \div period>>)

\* The relative strength itself, as a percentage.
RsiOfRelativeStrength(avgGain, avgLoss) ==
    IF avgLoss = 0 THEN 100 * SCALE
    ELSE RoundDiv(100 * 100 * avgGain, avgLoss) * (SCALE \div 100)

\* The RSI of an average gain and an average loss, two decimals.
RsiOf(avgGain, avgLoss) ==
    IF avgLoss = 0 THEN 100 * SCALE
    ELSE IF avgGain = 0 THEN 0
    ELSE RoundDiv(100 * 100 * avgGain, avgGain + avgLoss) * (SCALE \div 100)

\* RSI.calculate({values, period}): one output per price after the first `period`.
\* A change to or from a NaN price is NaN, and `gain > 0 ? gain : 0` makes it 0.
RsiCalculate(values, period) ==
    LET v == Finite(values)
        known(i) == IsNumber(values[i]) /\ IsNumber(values[i + 1])
        gains == Tuple([i \in 1..(Len(values) - 1) |->
                           IF known(i) THEN Max(v[i + 1] - v[i], 0) ELSE 0])
        losses == Tuple([i \in 1..(Len(values) - 1) |->
                           IF known(i) THEN Max(v[i] - v[i + 1], 0) ELSE 0])
        avgGain == WilderAverage(gains, period)
        avgLoss == WilderAverage(losses, period)
    IN Tuple([j \in 1..Max(0, Len(values) - period) |-> RsiOf(avgGain[j], avgLoss[j])])

\* The snapshot committed by setIndicators(currentIndicators).
CurrentIndicators(closePrices) ==
    LET rsi == RsiCalculate(closePrices, RsiPeriod)
        currentRsi == IF Len(rsi) > 0 THEN Num(Last(rsi)) ELSE NA
        macd == MacdCalculate(closePrices)
        currentMacd == IF Len(macd) > 0 THEN Last(macd)
                       ELSE [MACD |-> NA, signal |-> NA, histogram |-> NA]
        sma50 == SmaCalculate(closePrices, Sma50Period)
        currentSma50 == IF Len(sma50) > 0 THEN Last(sma50) ELSE NA
        sma200 == SmaCalculate(closePrices, Sma200Period)
        currentSma200 == IF Len(sma200) > 0 THEN Last(sma200) ELSE NA
        \* typeof x === 'number' ? parseFloat(x.toFixed(..)) : 'N/A'
        fixed(x, unit) == IF IsNumber(x) THEN Num(ToFixed(x.v, unit))
                          ELSE IF TypeofNumber(x) THEN NaN ELSE NA
    IN [rsi |-> fixed(currentRsi, TwoDecimals),
        macd |-> fixed(currentMacd.MACD, FourDecimals),
        macdSignal |-> fixed(currentMacd.signal, FourDecimals),
        macdHistogram |-> fixed(currentMacd.histogram, FourDecimals),
        sma50 |-> fixed(currentSma50, FourDecimals),
        sma200 |-> fixed(currentSma200, FourDecimals),
        volume |-> Num(0)]

\* setIndicators({}): every field reads as undefined.
ClearedIndicators ==
    [rsi |-> Undefined, macd |-> Undefined, macdSignal |-> Undefined,
     macdHistogram |-> Undefined, sma50 |-> Undefined, sma200 |-> Undefined,
     volume |-> Undefined]

\* The indicator table's cell: typeof x === 'number' ? x.toFixed(..) : 'N/A'
Shown(x) == IF TypeofNumber(x) THEN x ELSE NA

-----------------------------------------------------------------------------
(* The answers of the AI-analysis and the news endpoints *)

\* aiAnalysisJson.analysis for a request body: markdown with a bold heading.  A
\* text is a sequence of units; "*" and "_" are single characters.
AnalysisOf(body) == <<"*", "*", "Analysis of ", "*", "*", body.symbol>>

\* newsJson.news for a symbol.
NewsOf(sym) ==
    <<[title |-> <<sym, " rallies">>, url |-> <<"https://news/", sym, "/1">>],
      [title |-> <<sym, " outlook">>, url |-> <<"https://news/", sym, "/2">>]>>

NewsLists(sym) == {NewsOf(sym)}

-----------------------------------------------------------------------------
(* translateText and the translation endpoint *)

Languages == {"en", "tr"}

Arr(v) == [t |-> "array", v |-> v]

\* The text the service gives for q in language tl.
ServiceTranslation(q, tl) == <<tl, ": ">> \o q

\* The JSON bodies of an OK response to the request for q: the service's usual
\* body [[[translated, q]], null, "en"], and bodies of another shape: null, []
\* and [[]].
TranslationBodies(q, tl) ==
    {Arr(<<Arr(<<Arr(<<Str(ServiceTranslation(q, tl)), Str(q)>>)>>), Null, Str(<<"en">>)>>),
     Null,
     Arr(<<>>),
     Arr(<<Arr(<<>>)>>)}

\* The responses to the request for q: an OK response with a body, a transport
\* failure, a status that is not OK.
TranslationResponses(q, tl) ==
    {[kind |-> "ok", json |-> b] : b \in TranslationBodies(q, tl)} \cup Failures

\* Variant: the test of the target language is left out.
NeedsRequestAnyLanguage(text, targetLang) == text # <<>>

\* if (!text || targetLang === 'en') return text;  otherwise a request is issued
NeedsRequest(text, targetLang) == text # <<>> /\ targetLang # "en"

\* x[0] of a JSON value
First(x) == IF x.t = "array" /\ Len(x.v) > 0 THEN x.v[1] ELSE Undefined

RECURSIVE Join(_)
\* pieces.join(''): null and undefined pieces give the empty string
Join(pieces) ==
    IF pieces = <<>> THEN <<>>
    ELSE (IF pieces[1].t = "string" THEN pieces[1].v ELSE <<>>) \o Join(Tail(pieces))

\* What translateText(text, targetLang) resolves to once `response` has arrived:
\* data[0].map((segment) => segment[0]).join(''), or text from the catch block
\* (fetch rejected, !response.ok, TypeError of data[0].map).
TranslateResult(text, targetLang, response) ==
    IF response.kind # "ok" THEN text
    ELSE LET segments == First(response.json)
         IN IF segments.t # "array" THEN text
            ELSE Join([k \in 1..Len(segments.v) |-> First(segments.v[k])])

-----------------------------------------------------------------------------
(* stripMarkdown *)

Markers == {"*", "_"}

\* s begins with w copies of the marker m
MarkerAt(s, k, w, m) == k + w - 1 <= Len(s) /\ \A d \in 0..(w - 1) : s[k + d] = m

RECURSIVE ReplacePairs(_, _)
\* text.replace(/(m{w})(.*?)\1/g, '$2') for the markers m: at the leftmost
\* opening marker that has a closing one, the nearest closing one is taken, both
\* are dropped, and the scan goes on behind the closing marker.
ReplacePairs(s, w) ==
    IF Len(s) < 2 * w THEN s
    ELSE LET closings == {j \in (w + 1)..Len(s) : MarkerAt(s, j, w, s[1])}
         IN IF s[1] \in Markers /\ MarkerAt(s, 1, w, s[1]) /\ closings # {}
            THEN LET j == CHOOSE c \in closings : \A d \in closings : c <= d
                 IN SubSeq(s, w + 1, j - 1) \o ReplacePairs(SubSeq(s, j + w, Len(s)), w)
            ELSE <<s[1]>> \o ReplacePairs(Tail(s), w)

\* bold (** or __) first, then italic (* or _)
stripMarkdown(text) == ReplacePairs(ReplacePairs(text, 2), 1)

\* s.slice(0, n)
Slice(s, n) == SubSeq(s, 1, IF n < Len(s) THEN n ELSE Len(s))

-----------------------------------------------------------------------------
(* State *)

VARIABLES
    coins,               \* useState<CoinData[]>([])
    selected,            \* useState<string>('BTC')
    chartData,           \* useState<ChartData | null>(null)
    chartLoading,        \* useState<boolean>(false)
    chartError,          \* useState<string | null>(null)
    indicators,          \* useState<any>({})
    loadingInitialData,  \* useState<boolean>(true)
    initialDataError,    \* useState<string | null>(null)
    aiSummary,           \* useState<string>(uiText.aiSummaryPlaceholder.en)
    news,                \* useState<NewsItem[]>([])
    newsLoading,         \* useState<boolean>(false)
    newsError,           \* useState<string | null>(null)
    mounted,             \* whether the mount effects have run
    quotePending,        \* whether fetchCoins awaits its response
    quoteRequests,       \* the number of quote-list requests issued
    cycles               \* the runs of fetchChartAndIndicatorsData that issued
                         \* an OHLCV request, oldest first, with their locals

\* The display layer
VARIABLES
    language,            \* useState<Language>('en')
    translatedAiSummary, \* useState<string>(uiText.aiSummaryPlaceholder.en)
    translatedNews,      \* useState<NewsItem[]>([])
    displayedAiSummary,  \* useState<string>('')
    visibleCharacters,   \* useState<number>(0)
    summaryJobs,         \* the runs of runTranslation that await translateText
    newsJobs,            \* the runs of translateNewsItems that await Promise.all
    timers,              \* the live intervals of the typewriter, oldest first
    effects,             \* the display effects due after the last commit
    toggles              \* the number of language changes so far

pipelineVars == <<coins, selected, chartData, chartLoading, chartError, indicators,
                  loadingInitialData, initialDataError, aiSummary, news, newsLoading,
                  newsError, mounted, quotePending, quoteRequests, cycles>>

displayVars == <<language, translatedAiSummary, translatedNews, displayedAiSummary,
                 visibleCharacters, summaryJobs, newsJobs, timers, effects, toggles>>

vars == <<pipelineVars, displayVars>>

\* The display effects, in source order, and the ones each specification holds.
DisplayEffects == {"runTranslation", "translateNewsItems", "typewriter", "displayed"}
TranslationLayer == {"runTranslation", "translateNewsItems"}
TypewriterLayer == {"runTranslation", "typewriter", "displayed"}

quoteVars == <<coins, loadingInitialData, initialDataError, quotePending, quoteRequests>>

NoRequest == [t |-> "none"]

InitCells ==
    /\ coins = <<>>
    /\ selected = "BTC"
    /\ chartData = Null
    /\ chartLoading = FALSE
    /\ chartError = Null
    /\ indicators = ClearedIndicators
    /\ loadingInitialData = TRUE
    /\ initialDataError = Null
    /\ aiSummary = aiSummaryPlaceholder
    /\ news = <<>>
    /\ newsLoading = FALSE
    /\ newsError = Null
    /\ mounted = FALSE
    /\ quotePending = FALSE
    /\ quoteRequests = 0
    /\ cycles = <<>>
    /\ language = "en"
    /\ translatedAiSummary = aiSummaryPlaceholder
    /\ translatedNews = <<>>
    /\ displayedAiSummary = <<>>
    /\ visibleCharacters = 0
    /\ summaryJobs = {}
    /\ newsJobs = {}
    /\ timers = <<>>
    /\ toggles = 0

\* Before the first render's effects: every effect is due.
Init == InitCells /\ effects = DisplayEffects
TranslationInit == InitCells /\ effects = TranslationLayer
TypewriterInit == InitCells /\ effects = TypewriterLayer

-----------------------------------------------------------------------------
(* The detail effect: fetchChartAndIndicatorsData *)

\* coins.find((c) => c.symbol === selected)
FindCoin(cs, sel) ==
    IF \E i \in 1..Len(cs) : cs[i].symbol = sel
    THEN cs[CHOOSE i \in 1..Len(cs) :
                /\ cs[i].symbol = sel
                /\ \A j \in 1..(i - 1) : cs[j].symbol # sel]
    ELSE Undefined

\* Variant: the body reads the `indicators` state of the render the effect closed
\* over instead of the snapshot just computed.
AiRequestBodyFromState(sel, currentCoin, currentIndicators, nw) ==
    [symbol |-> sel,
     currentPrice |-> OrElse(currentCoin.currentPrice, Num(0)),
     percentChange24h |-> OrElse(currentCoin.percentChange24h, Num(0)),
     marketCap |-> OrElse(currentCoin.marketCap, Num(0)),
     rsi |-> indicators.rsi,
     macd |-> indicators.macd,
     sma50 |-> indicators.sma50,
     sma200 |-> indicators.sma200,
     volume |-> OrElse(currentCoin.volume24h, Num(0)),
     news |-> nw]

\* Variant: the body carries the news list as rendered, translated titles included.
AiRequestBodyRenderedNews(sel, currentCoin, currentIndicators, nw) ==
    [symbol |-> sel,
     currentPrice |-> OrElse(currentCoin.currentPrice, Num(0)),
     percentChange24h |-> OrElse(currentCoin.percentChange24h, Num(0)),
     marketCap |-> OrElse(currentCoin.marketCap, Num(0)),
     rsi |-> currentIndicators.rsi,
     macd |-> currentIndicators.macd,
     sma50 |-> currentIndicators.sma50,
     sma200 |-> currentIndicators.sma200,
     volume |-> OrElse(currentCoin.volume24h, Num(0)),
     news |-> IF language = "en" \/ translatedNews = <<>> THEN nw ELSE translatedNews]

\* The body of the POST to /api/ai/analyze-crypto.
AiRequestBody(sel, currentCoin, currentIndicators, nw) ==
    [symbol |-> sel,
     currentPrice |-> OrElse(currentCoin.currentPrice, Num(0)),
     percentChange24h |-> OrElse(currentCoin.percentChange24h, Num(0)),
     marketCap |-> OrElse(currentCoin.marketCap, Num(0)),
     rsi |-> currentIndicators.rsi,
     macd |-> currentIndicators.macd,
     sma50 |-> currentIndicators.sma50,
     sma200 |-> currentIndicators.sma200,
     volume |-> OrElse(currentCoin.volume24h, Num(0)),
     news |-> nw]

\* A run that found its coin and awaits the OHLCV response.  selected, currentCoin
\* and news are the values of the render the effect closed over.
NewCycle(sel, currentCoin, nw) ==
    [selected |-> sel, currentCoin |-> currentCoin, news |-> nw,
     pc |-> "ohlcv", outcome |-> "running", closePrices |-> <<>>,
     aiRequest |-> NoRequest, newsRequest |-> FALSE, error |-> Null]

\* Variant: no early return, the OHLCV request is issued whether or not the
\* selected symbol is in the list.
DetailEffectUnguarded(sel, cs, nw) ==
    IF sel = "" THEN
        UNCHANGED <<chartData, chartLoading, chartError, indicators, aiSummary,
                    news, newsLoading, newsError, cycles>>
    ELSE
        /\ chartLoading' = TRUE
        /\ chartError' = Null
        /\ newsError' = Null
        /\ newsLoading' = TRUE
        /\ cycles' = Append(cycles, NewCycle(sel, FindCoin(cs, sel), nw))
        /\ UNCHANGED <<chartData, indicators, aiSummary, news>>

\* The effect of the render with selected = sel, coins = cs, news = nw, up to
\* its first await (or its early return).
DetailEffect(sel, cs, nw) ==
    IF sel = "" THEN
        UNCHANGED <<chartData, chartLoading, chartError, indicators, aiSummary,
                    news, newsLoading, newsError, cycles>>
    ELSE
        /\ chartLoading' = TRUE
        /\ chartError' = Null
        /\ newsError' = Null
        /\ IF FindCoin(cs, sel) = Undefined
           THEN /\ chartData' = Null
                /\ indicators' = ClearedIndicators
                /\ aiSummary' = SelectCoinText
                /\ news' = <<>>
                /\ newsLoading' = FALSE
                /\ cycles' = cycles
           ELSE /\ newsLoading' = TRUE
                /\ cycles' = Append(cycles, NewCycle(sel, FindCoin(cs, sel), nw))
                /\ UNCHANGED <<chartData, indicators, aiSummary, news>>

\* Variant: the catch block writes the fixed "no data" text as the summary.
CatchCommitNoDataText(msg) ==
    /\ chartError' = Str(msg)
    /\ indicators' = ClearedIndicators
    /\ aiSummary' = NoDataText
    /\ newsError' = Str(msg)
    /\ news' = <<>>
    /\ UNCHANGED chartData

\* catch (e) of the cycle, with msg = e.message
CatchCommit(msg) ==
    /\ chartError' = Str(msg)
    /\ indicators' = ClearedIndicators
    /\ aiSummary' = AiErrorPrefix \o msg
    /\ newsError' = Str(msg)
    /\ news' = <<>>
    /\ UNCHANGED chartData

\* finally of the cycle
FinallyCommit ==
    /\ chartLoading' = FALSE
    /\ newsLoading' = FALSE

\* Variant: the else branch leaves the chart as it is, as the catch block does.
NoDataCommitKeepsChart ==
    /\ indicators' = ClearedIndicators
    /\ chartError' = Str(NoOhlcvText)
    /\ aiSummary' = NoDataText
    /\ news' = <<>>
    /\ UNCHANGED <<newsError, chartData>>

\* the else branch: the OHLCV response holds no values
NoDataCommit ==
    /\ chartData' = Null
    /\ indicators' = ClearedIndicators
    /\ chartError' = Str(NoOhlcvText)
    /\ aiSummary' = NoDataText
    /\ news' = <<>>
    /\ UNCHANGED newsError

\* Variant: no inner try, so that a news failure lands in the cycle's catch block.
NewsCatchAsCycleCatch(msg) == CatchCommit(msg)

\* catch (newsFetchError) of the inner try, with msg = newsFetchError.message
NewsCatchCommit(msg) ==
    /\ newsError' = Str(msg)
    /\ news' = <<>>
    /\ UNCHANGED <<chartData, chartError, indicators, aiSummary>>

\* Variant: a cycle that ends with an error stays at its stage, its request
\* issued again.
FinishWithRetry(i, outcome, err) ==
    cycles' = [cycles EXCEPT ![i].pc = IF err = Null THEN "done" ELSE @,
                             ![i].outcome = outcome, ![i].error = err]

Finish(i, outcome, err) ==
    cycles' = [cycles EXCEPT ![i].pc = "done", ![i].outcome = outcome, ![i].error = err]

InFlight(i, pc) == i \in 1..Len(cycles) /\ cycles[i].pc = pc

-----------------------------------------------------------------------------
(* Actions *)

\* The first render's effects: fetchCoins issues its request, and the detail
\* effect runs with the initial state.
Mount ==
    /\ ~mounted
    /\ mounted' = TRUE
    /\ quotePending' = TRUE
    /\ quoteRequests' = quoteRequests + 1
    /\ DetailEffect(selected, coins, news)
    /\ UNCHANGED <<coins, selected, loadingInitialData, initialDataError>>

\* fetchCoins: an OK response.  setCoins and setSelected are batched into one
\* render; it has a new coins array, so the detail effect runs again.
FetchCoinsOk(json, fetchedCoins) ==
    /\ quotePending
    /\ fetchedCoins \in SortOutcomes(MapCoins(json))
    /\ coins' = fetchedCoins
    /\ selected' = IF Len(fetchedCoins) > 0 THEN fetchedCoins[1].symbol ELSE selected
    /\ loadingInitialData' = FALSE
    /\ quotePending' = FALSE
    /\ DetailEffect(IF Len(fetchedCoins) > 0 THEN fetchedCoins[1].symbol ELSE selected,
                    fetchedCoins, news)
    /\ UNCHANGED <<initialDataError, mounted, quoteRequests>>

\* Variant: the catch block issues the quote-list request again.
FetchCoinsCatchRetry(msg) ==
    /\ initialDataError' = Str(msg)
    /\ loadingInitialData' = FALSE
    /\ quotePending' = TRUE
    /\ quoteRequests' = quoteRequests + 1
    /\ UNCHANGED coins

\* catch (e) and finally of fetchCoins
FetchCoinsCatch(msg) ==
    /\ initialDataError' = Str(msg)
    /\ loadingInitialData' = FALSE
    /\ quotePending' = FALSE
    /\ UNCHANGED <<coins, quoteRequests>>

\* fetchCoins: the request fails, or its status is not OK.
FetchCoinsFail(f) ==
    /\ quotePending
    /\ FetchCoinsCatch(ErrorMessage("API Error: ", f))
    /\ UNCHANGED <<selected, chartData, chartLoading, chartError, indicators,
                   aiSummary, news, newsLoading, newsError, mounted, cycles>>

\* Variant: selected is a dependency of the fetchCoins effect, which issues the
\* quote-list request again on the render of the new selection.
SelectChangeRefetches(newSelected) ==
    /\ mounted
    /\ Len(cycles) < MaxCycles
    /\ \E i \in 1..Len(coins) : coins[i].symbol = newSelected
    /\ newSelected # selected
    /\ selected' = newSelected
    /\ quotePending' = TRUE
    /\ quoteRequests' = quoteRequests + 1
    /\ DetailEffect(newSelected, coins, news)
    /\ UNCHANGED <<coins, loadingInitialData, initialDataError, mounted>>

\* handleSelectChange: the user picks another option of the coin selector.
SelectChange(newSelected) ==
    /\ mounted
    /\ Len(cycles) < MaxCycles
    /\ \E i \in 1..Len(coins) : coins[i].symbol = newSelected
    /\ newSelected # selected
    /\ selected' = newSelected
    /\ DetailEffect(newSelected, coins, news)
    /\ UNCHANGED <<quoteVars, mounted>>

\* The OHLCV request fails, or its status is not OK.
OhlcvFail(i, f) ==
    /\ InFlight(i, "ohlcv")
    /\ LET msg == ErrorMessage("Twelve Data OHLCV API Error: ", f)
       IN /\ CatchCommit(msg)
          /\ Finish(i, "ohlcvFailed", Str(msg))
    /\ FinallyCommit
    /\ UNCHANGED <<quoteVars, selected, mounted>>

\* The OHLCV response is OK and holds no values.
OhlcvEmpty(i, json) ==
    /\ InFlight(i, "ohlcv")
    /\ ~HasValues(json)
    /\ NoDataCommit
    /\ FinallyCommit
    /\ Finish(i, "noData", Null)
    /\ UNCHANGED <<quoteVars, selected, mounted>>

\* The OHLCV response is OK and holds values: the chart and the indicators are
\* committed and the AI-analysis request is issued.
OhlcvOk(i, json) ==
    /\ InFlight(i, "ohlcv")
    /\ HasValues(json)
    /\ \E history \in {SortByDatetime(json.values.v)} :
          \E currentIndicators \in {CurrentIndicators(ClosePrices(history))} :
             LET c == cycles[i]
             IN /\ chartData' = [t |-> "chart", labels |-> Labels(history),
                                 label |-> <<c.selected, " Price (USD)">>,
                                 data |-> ClosePrices(history)]
                /\ indicators' = currentIndicators
                /\ cycles' = [cycles EXCEPT
                                 ![i].pc = "ai",
                                 ![i].closePrices = ClosePrices(history),
                                 ![i].aiRequest =
                                     AiRequestBody(c.selected, c.currentCoin,
                                                   currentIndicators, c.news)]
    /\ UNCHANGED <<quoteVars, selected, mounted, chartLoading, chartError,
                   aiSummary, news, newsLoading, newsError>>

\* The AI-analysis request fails, or its status is not OK.
AiFail(i, f) ==
    /\ InFlight(i, "ai")
    /\ LET msg == ErrorMessage("AI Analysis API Error: ", f)
       IN /\ CatchCommit(msg)
          /\ Finish(i, "aiFailed", Str(msg))
    /\ FinallyCommit
    /\ UNCHANGED <<quoteVars, selected, mounted>>

\* The AI-analysis response is OK: the summary is committed and the news request
\* is issued.
AiOk(i) ==
    /\ InFlight(i, "ai")
    /\ aiSummary' = AnalysisOf(cycles[i].aiRequest)
    /\ cycles' = [cycles EXCEPT ![i].pc = "news", ![i].newsRequest = TRUE]
    /\ UNCHANGED <<quoteVars, selected, mounted, chartData, chartLoading, chartError,
                   indicators, news, newsLoading, newsError>>

\* The news request fails, or its status is not OK.
NewsFail(i, f) ==
    /\ InFlight(i, "news")
    /\ LET msg == ErrorMessage("Tavily News API Error: ", f)
       IN /\ NewsCatchCommit(msg)
          /\ Finish(i, "newsFailed", Str(msg))
    /\ FinallyCommit
    /\ UNCHANGED <<quoteVars, selected, mounted>>

\* The news response is OK.
NewsOk(i, items) ==
    /\ InFlight(i, "news")
    /\ news' = items
    /\ FinallyCommit
    /\ Finish(i, "ok", Null)
    /\ UNCHANGED <<quoteVars, selected, mounted, chartData, chartError, indicators,
                   aiSummary, newsError>>

-----------------------------------------------------------------------------
(* The display effects *)

\* The number of setNews calls so far: one by every run of the detail effect
\* that found no coin (the first render, an empty quote list) and one by every
\* cycle that ended.  Each call stores a new array, so each is a change of the
\* `news` dependency.
NewsWrites ==
    Cardinality({i \in 1..Len(cycles) : cycles[i].pc = "done"})
    + (IF mounted THEN 1 ELSE 0)
    + (IF mounted /\ ~quotePending /\ initialDataError = Null /\ coins = <<>> THEN 1 ELSE 0)

\* The effects of `layer` whose dependency arrays changed in the commit this
\* step makes.
Due(layer) ==
    {e \in layer :
        CASE e = "runTranslation" -> aiSummary' # aiSummary \/ language' # language
          [] e = "translateNewsItems" -> NewsWrites' # NewsWrites \/ language' # language
          [] e = "typewriter" -> translatedAiSummary' # translatedAiSummary
          [] e = "displayed" -> \/ visibleCharacters' # visibleCharacters
                                \/ translatedAiSummary' # translatedAiSummary}

\* Variant: the effect has no cleanup.
KeepMounted(jobs) == jobs

\* return () => { isMounted = false; } of the previous run of the effect
Unmount(jobs) == {[j EXCEPT !.isMounted = FALSE] : j \in jobs}

\* if (isMounted && currentLanguage === language): both names are constants of
\* the run's closure.
StillCurrent(j) == j.isMounted /\ j.currentLanguage = j.language

\* The effect of [aiSummary, language]: runTranslation up to its await.
TranslateSummaryEffect ==
    IF "runTranslation" \notin effects THEN UNCHANGED <<translatedAiSummary, summaryJobs>>
    ELSE IF aiSummary = <<>> THEN
        /\ translatedAiSummary' = <<>>
        /\ summaryJobs' = Unmount(summaryJobs)
    ELSE IF language = "en" \/ ~NeedsRequest(aiSummary, language) THEN
        /\ translatedAiSummary' = aiSummary
        /\ summaryJobs' = Unmount(summaryJobs)
    ELSE
        /\ summaryJobs' = Unmount(summaryJobs) \cup
                             {[text |-> aiSummary, language |-> language,
                               currentLanguage |-> language, isMounted |-> TRUE]}
        /\ UNCHANGED translatedAiSummary

\* news.map((item, idx) => ({ ...item, title: translatedTitles[idx] }))
Retitled(nw, titles) == [k \in 1..Len(nw) |-> [nw[k] EXCEPT !.title = titles[k].v]]

\* The promises of news.map((item) => translateText(item.title, language)): a
\* title that needs no request is resolved at once.
TitlePromises(nw, lang) ==
    [k \in 1..Len(nw) |->
        IF NeedsRequest(nw[k].title, lang) THEN Undefined ELSE Str(nw[k].title)]

Resolved(titles) == \A k \in 1..Len(titles) : titles[k] # Undefined

\* The effect of [news, language]: translateNewsItems up to its await.
TranslateNewsEffect ==
    IF "translateNewsItems" \notin effects THEN UNCHANGED <<translatedNews, newsJobs>>
    ELSE IF news = <<>> THEN
        /\ translatedNews' = <<>>
        /\ newsJobs' = Unmount(newsJobs)
    ELSE IF language = "en" THEN
        /\ translatedNews' = news
        /\ newsJobs' = Unmount(newsJobs)
    ELSE IF Resolved(TitlePromises(news, language)) THEN
        /\ translatedNews' = Retitled(news, TitlePromises(news, language))
        /\ newsJobs' = Unmount(newsJobs)
    ELSE
        /\ translatedNews' = news
        /\ newsJobs' = Unmount(newsJobs) \cup
                          {[news |-> news, language |-> language,
                            currentLanguage |-> language, isMounted |-> TRUE,
                            titles |-> TitlePromises(news, language)]}

\* Variant: the effect returns no cleanup.
TypewriterNoCleanup(ts) == ts

\* return () => clearInterval(intervalId) of the previous run: the interval that
\* run created, the newest one, if it is still live.
TypewriterCleanup(ts) == IF ts = <<>> THEN ts ELSE Front(ts)

\* The effect of [translatedAiSummary]: the reset and the new interval.
TypewriterEffect ==
    IF "typewriter" \notin effects THEN UNCHANGED <<visibleCharacters, timers>>
    ELSE /\ visibleCharacters' = 0
         /\ timers' = IF translatedAiSummary = <<>> THEN TypewriterCleanup(timers)
                      ELSE Append(TypewriterCleanup(timers),
                                  [plainAiSummary |-> stripMarkdown(translatedAiSummary)])

\* plainAiSummary.slice(0, visibleCharacters) of the displayed-text effect
DisplayedText(text, count) == Slice(stripMarkdown(text), count)

\* setDisplayedAiSummary: by the typewriter effect for an empty text, by the
\* effect of [visibleCharacters, translatedAiSummary] otherwise; both read the
\* values of the render they belong to.
DisplayedEffect ==
    IF translatedAiSummary = <<>>
    THEN IF "typewriter" \in effects THEN displayedAiSummary' = <<>>
         ELSE UNCHANGED displayedAiSummary
    ELSE IF "displayed" \in effects
         THEN displayedAiSummary' = DisplayedText(translatedAiSummary, visibleCharacters)
         ELSE UNCHANGED displayedAiSummary

\* The due display effects run, in source order.
RunEffects ==
    /\ TranslateSummaryEffect
    /\ TranslateNewsEffect
    /\ TypewriterEffect
    /\ DisplayedEffect

\* A step of the pipeline seen from the display layer: it writes no display
\* cell, and the effects of the cells it changed become due.
Reaction(layer) ==
    /\ UNCHANGED <<language, translatedAiSummary, translatedNews, displayedAiSummary,
                   visibleCharacters, summaryJobs, newsJobs, timers, toggles>>
    /\ effects' = Due(layer)

\* No effect is due, and few enough cancelled runs are outstanding: the user or
\* the pipeline's backend may act.
Stale(jobs) == {j \in jobs : ~j.isMounted}
Quiet ==
    /\ effects = {}
    /\ Cardinality(Stale(summaryJobs)) + Cardinality(Stale(newsJobs)) <= MaxStale

\* The pipeline alone: the display layer is left out.
Frozen == UNCHANGED displayVars

-----------------------------------------------------------------------------
(* The display actions *)

\* The first render's effects, the display effects first (source order).
MountDisplay ==
    /\ Mount
    /\ RunEffects
    /\ UNCHANGED <<language, toggles>>

\* The effects due after a commit run before anything else happens.
FlushEffects ==
    /\ mounted
    /\ effects # {}
    /\ RunEffects
    /\ UNCHANGED <<pipelineVars, language, toggles>>

\* Variant: language is a dependency of the detail effect, which runs again on
\* the render of the new language.
ToggleLanguageRefetches(langOption) ==
    /\ mounted
    /\ Quiet
    /\ toggles < MaxToggles
    /\ Len(cycles) < MaxCycles
    /\ langOption # language
    /\ language' = langOption
    /\ toggles' = toggles + 1
    /\ DetailEffect(selected, coins, news)
    /\ UNCHANGED <<quoteVars, selected, mounted, translatedAiSummary, translatedNews,
                   displayedAiSummary, visibleCharacters, summaryJobs, newsJobs, timers>>

\* onClick={() => setLanguage(langOption)} with another language than the current
ToggleLanguage(langOption) ==
    /\ mounted
    /\ Quiet
    /\ toggles < MaxToggles
    /\ langOption # language
    /\ language' = langOption
    /\ toggles' = toggles + 1
    /\ UNCHANGED <<pipelineVars, translatedAiSummary, translatedNews, displayedAiSummary,
                   visibleCharacters, summaryJobs, newsJobs, timers>>

\* runTranslation behind its await: translateText has resolved.
SummaryTranslated(j, response) ==
    /\ effects = {}
    /\ j \in summaryJobs
    /\ summaryJobs' = summaryJobs \ {j}
    /\ translatedAiSummary' =
          IF StillCurrent(j) THEN TranslateResult(j.text, j.language, response)
          ELSE translatedAiSummary
    /\ UNCHANGED <<pipelineVars, language, translatedNews, displayedAiSummary,
                   visibleCharacters, newsJobs, timers, toggles>>

\* One translateText of translateNewsItems has resolved; behind the last one
\* Promise.all resolves and the batch is written.
NewsTitleTranslated(j, k, response) ==
    /\ effects = {}
    /\ j \in newsJobs
    /\ k \in 1..Len(j.titles)
    /\ j.titles[k] = Undefined
    /\ LET titles == [j.titles EXCEPT
                         ![k] = Str(TranslateResult(j.news[k].title, j.language, response))]
       IN IF Resolved(titles)
          THEN /\ newsJobs' = newsJobs \ {j}
               /\ translatedNews' = IF StillCurrent(j) THEN Retitled(j.news, titles)
                                    ELSE translatedNews
          ELSE /\ newsJobs' = (newsJobs \ {j}) \cup {[j EXCEPT !.titles = titles]}
               /\ UNCHANGED translatedNews
    /\ UNCHANGED <<pipelineVars, language, translatedAiSummary, displayedAiSummary,
                   visibleCharacters, summaryJobs, timers, toggles>>

\* Variant: the callback stops one unit before the end of the text.
TickUpdateStopsShort(k) ==
    IF visibleCharacters + 1 < Len(timers[k].plainAiSummary)
    THEN /\ visibleCharacters' = visibleCharacters + 1
         /\ UNCHANGED timers
    ELSE /\ timers' = SubSeq(timers, 1, k - 1) \o SubSeq(timers, k + 1, Len(timers))
         /\ UNCHANGED visibleCharacters

\* The interval's callback: setVisibleCharacters(prevCount => ...)
TickUpdate(k) ==
    IF visibleCharacters < Len(timers[k].plainAiSummary)
    THEN /\ visibleCharacters' = visibleCharacters + 1
         /\ UNCHANGED timers
    ELSE /\ timers' = SubSeq(timers, 1, k - 1) \o SubSeq(timers, k + 1, Len(timers))
         /\ UNCHANGED visibleCharacters

\* A tick of the live interval k.
Tick(k) ==
    /\ effects = {}
    /\ k \in 1..Len(timers)
    /\ TickUpdate(k)
    /\ UNCHANGED <<pipelineVars, language, translatedAiSummary, translatedNews,
                   displayedAiSummary, summaryJobs, newsJobs, toggles>>

Next ==
    \/ Mount /\ Frozen
    \/ /\ quotePending
       /\ \E json \in QuoteLists :
             \E fetchedCoins \in SortOutcomes(MapCoins(json)) : FetchCoinsOk(json, fetchedCoins)
       /\ Frozen
    \/ \E f \in Failures : FetchCoinsFail(f) /\ Frozen
    \/ \E s \in Symbols : SelectChange(s) /\ Frozen
    \/ \E i \in 1..Len(cycles), f \in Failures : OhlcvFail(i, f) /\ Frozen
    \/ \E i \in 1..Len(cycles) :
          /\ InFlight(i, "ohlcv")
          /\ \E json \in OhlcvBodies(cycles[i].selected) : OhlcvEmpty(i, json)
          /\ Frozen
    \/ \E i \in 1..Len(cycles) :
          /\ InFlight(i, "ohlcv")
          /\ \E json \in OhlcvBodies(cycles[i].selected) : OhlcvOk(i, json)
          /\ Frozen
    \/ \E i \in 1..Len(cycles), f \in Failures : AiFail(i, f) /\ Frozen
    \/ \E i \in 1..Len(cycles) : AiOk(i) /\ Frozen
    \/ \E i \in 1..Len(cycles), f \in Failures : NewsFail(i, f) /\ Frozen
    \/ \E i \in 1..Len(cycles) :
          /\ InFlight(i, "news")
          /\ \E items \in NewsLists(cycles[i].selected) : NewsOk(i, items)
          /\ Frozen

Spec == Init /\ [][Next]_vars

\* The small backends and the user of the display specifications: a quote list
\* of two coins, the second of which the user selects once the first one's
\* cycle has ended; a quote list of one coin.
TwoCoins == {<<RawCoin("BTC"), RawCoin("ETH")>>}
SecondCoin == {"ETH"}
Settled == \A i \in 1..Len(cycles) : cycles[i].pc = "done"
OneCoin == {<<RawCoin("BTC")>>}

\* The pipeline's steps with the reaction of the translation effects, the
\* language button and the translation responses.
TranslationNext ==
    \/ MountDisplay /\ effects' = Due(TranslationLayer)
    \/ FlushEffects /\ effects' = Due(TranslationLayer)
    \/ /\ Quiet
       /\ quotePending
       /\ \E json \in TwoCoins :
             \E fetchedCoins \in SortOutcomes(MapCoins(json)) : FetchCoinsOk(json, fetchedCoins)
       /\ Reaction(TranslationLayer)
    \/ Quiet /\ (\E f \in Failures : FetchCoinsFail(f)) /\ Reaction(TranslationLayer)
    \/ /\ Quiet
       /\ Settled
       /\ \E s \in SecondCoin : SelectChange(s)
       /\ Reaction(TranslationLayer)
    \/ Quiet /\ (\E i \in 1..Len(cycles), f \in Failures : OhlcvFail(i, f)) /\ Reaction(TranslationLayer)
    \/ \E i \in 1..Len(cycles) :
          /\ Quiet
          /\ InFlight(i, "ohlcv")
          /\ \E json \in OhlcvBodies(cycles[i].selected) : OhlcvEmpty(i, json)
          /\ Reaction(TranslationLayer)
    \/ \E i \in 1..Len(cycles) :
          /\ Quiet
          /\ InFlight(i, "ohlcv")
          /\ \E json \in OhlcvBodies(cycles[i].selected) : OhlcvOk(i, json)
          /\ Reaction(TranslationLayer)
    \/ Quiet /\ (\E i \in 1..Len(cycles), f \in Failures : AiFail(i, f)) /\ Reaction(TranslationLayer)
    \/ Quiet /\ (\E i \in 1..Len(cycles) : AiOk(i)) /\ Reaction(TranslationLayer)
    \/ Quiet /\ (\E i \in 1..Len(cycles), f \in Failures : NewsFail(i, f)) /\ Reaction(TranslationLayer)
    \/ \E i \in 1..Len(cycles) :
          /\ Quiet
          /\ InFlight(i, "news")
          /\ \E items \in NewsLists(cycles[i].selected) : NewsOk(i, items)
          /\ Reaction(TranslationLayer)
    \/ \E langOption \in Languages : ToggleLanguage(langOption) /\ effects' = Due(TranslationLayer)
    \/ \E j \in summaryJobs :
          \E response \in TranslationResponses(j.text, j.language) :
             SummaryTranslated(j, response) /\ effects' = Due(TranslationLayer)
    \/ \E j \in newsJobs :
          \E k \in 1..Len(j.titles) :
             \E response \in TranslationResponses(j.news[k].title, j.language) :
                NewsTitleTranslated(j, k, response) /\ effects' = Due(TranslationLayer)

TranslationSpec == TranslationInit /\ [][TranslationNext]_vars

\* The pipeline's steps for a single coin with the reaction of the summary's
\* translation and of the typewriter, the language button, the translation
\* responses and the interval's ticks.
TypewriterNext ==
    \/ MountDisplay /\ effects' = Due(TypewriterLayer)
    \/ FlushEffects /\ effects' = Due(TypewriterLayer)
    \/ /\ Quiet
       /\ quotePending
       /\ \E json \in OneCoin :
             \E fetchedCoins \in SortOutcomes(MapCoins(json)) : FetchCoinsOk(json, fetchedCoins)
       /\ Reaction(TypewriterLayer)
    \/ Quiet /\ (\E f \in Failures : FetchCoinsFail(f)) /\ Reaction(TypewriterLayer)
    \/ Quiet /\ (\E i \in 1..Len(cycles), f \in Failures : OhlcvFail(i, f)) /\ Reaction(TypewriterLayer)
    \/ \E i \in 1..Len(cycles) :
          /\ Quiet
          /\ InFlight(i, "ohlcv")
          /\ \E json \in OhlcvBodies(cycles[i].selected) : OhlcvEmpty(i, json)
          /\ Reaction(TypewriterLayer)
    \/ \E i \in 1..Len(cycles) :
          /\ Quiet
          /\ InFlight(i, "ohlcv")
          /\ \E json \in OhlcvBodies(cycles[i].selected) : OhlcvOk(i, json)
          /\ Reaction(TypewriterLayer)
    \/ Quiet /\ (\E i \in 1..Len(cycles), f \in Failures : AiFail(i, f)) /\ Reaction(TypewriterLayer)
    \/ Quiet /\ (\E i \in 1..Len(cycles) : AiOk(i)) /\ Reaction(TypewriterLayer)
    \/ Quiet /\ (\E i \in 1..Len(cycles), f \in Failures : NewsFail(i, f)) /\ Reaction(TypewriterLayer)
    \/ \E i \in 1..Len(cycles) :
          /\ Quiet
          /\ InFlight(i, "news")
          /\ \E items \in NewsLists(cycles[i].selected) : NewsOk(i, items)
          /\ Reaction(TypewriterLayer)
    \/ \E langOption \in Languages : ToggleLanguage(langOption) /\ effects' = Due(TypewriterLayer)
    \/ \E j \in summaryJobs :
          \E response \in TranslationResponses(j.text, j.language) :
             SummaryTranslated(j, response) /\ effects' = Due(TypewriterLayer)
    \/ \E k \in 1..Len(timers) : Tick(k) /\ effects' = Due(TypewriterLayer)

TypewriterSpec == TypewriterInit /\ [][TypewriterNext]_vars

\* TypewriterSpec with the scheduling of the browser: the effects due after a
\* commit run, and a live interval keeps firing its callback.
TypewriterFairSpec ==
    /\ TypewriterSpec
    /\ WF_vars(FlushEffects /\ effects' = Due(TypewriterLayer))
    /\ WF_vars(\E k \in 1..Len(timers) : Tick(k) /\ effects' = Due(TypewriterLayer))

\* The pipeline alone, as in Spec, with a backend whose quote list is the two
\* coins and whose OHLCV history may carry the gap.
IndicatorNext ==
    \/ Mount /\ Frozen
    \/ /\ quotePending
       /\ \E json \in TwoCoins :
             \E fetchedCoins \in SortOutcomes(MapCoins(json)) : FetchCoinsOk(json, fetchedCoins)
       /\ Frozen
    \/ \E f \in Failures : FetchCoinsFail(f) /\ Frozen
    \/ \E s \in SecondCoin : SelectChange(s) /\ Frozen
    \/ \E i \in 1..Len(cycles), f \in Failures : OhlcvFail(i, f) /\ Frozen
    \/ \E i \in 1..Len(cycles) :
          /\ InFlight(i, "ohlcv")
          /\ \E json \in OhlcvBodies(cycles[i].selected) : OhlcvEmpty(i, json)
          /\ Frozen
    \/ \E i \in 1..Len(cycles) :
          /\ InFlight(i, "ohlcv")
          /\ \E json \in OhlcvBodies(cycles[i].selected) \cup GappedBodies : OhlcvOk(i, json)
          /\ Frozen
    \/ \E i \in 1..Len(cycles), f \in Failures : AiFail(i, f) /\ Frozen
    \/ \E i \in 1..Len(cycles) : AiOk(i) /\ Frozen
    \/ \E i \in 1..Len(cycles), f \in Failures : NewsFail(i, f) /\ Frozen
    \/ \E i \in 1..Len(cycles) :
          /\ InFlight(i, "news")
          /\ \E items \in NewsLists(cycles[i].selected) : NewsOk(i, items)
          /\ Frozen

IndicatorSpec == Init /\ [][IndicatorNext]_vars

\* The pipeline of one coin with a backend that answers the OHLCV request with
\* any of the series.
SeriesNext ==
    \/ Mount /\ Frozen
    \/ /\ quotePending
       /\ \E json \in OneCoin :
             \E fetchedCoins \in SortOutcomes(MapCoins(json)) : FetchCoinsOk(json, fetchedCoins)
       /\ Frozen
    \/ \E f \in Failures : FetchCoinsFail(f) /\ Frozen
    \/ \E i \in 1..Len(cycles), f \in Failures : OhlcvFail(i, f) /\ Frozen
    \/ \E i \in 1..Len(cycles) :
          /\ InFlight(i, "ohlcv")
          /\ \E json \in OhlcvBodies(cycles[i].selected) : OhlcvEmpty(i, json)
          /\ Frozen
    \/ \E i \in 1..Len(cycles) :
          /\ InFlight(i, "ohlcv")
          /\ \E json \in SeriesBodies : OhlcvOk(i, json)
          /\ Frozen
    \/ \E i \in 1..Len(cycles), f \in Failures : AiFail(i, f) /\ Frozen
    \/ \E i \in 1..Len(cycles) : AiOk(i) /\ Frozen
    \/ \E i \in 1..Len(cycles), f \in Failures : NewsFail(i, f) /\ Frozen
    \/ \E i \in 1..Len(cycles) :
          /\ InFlight(i, "news")
          /\ \E items \in NewsLists(cycles[i].selected) : NewsOk(i, items)
          /\ Frozen

SeriesSpec == Init /\ [][SeriesNext]_vars

-----------------------------------------------------------------------------
(* Properties *)

Cycles == 1..Len(cycles)

\* Cycle i takes the step from stage `pc` that ends it with `outcome`.
Ends(i, pc, outcome) == cycles[i].pc = pc /\ cycles'[i].outcome = outcome

IndicatorFields == {"rsi", "macd", "macdSignal", "macdHistogram", "sma50", "sma200"}

\* C1: once another symbol is selected, no step of a cycle started for the
\* earlier symbol (a response or a failure of its OHLCV, AI-analysis or news
\* request) changes chartData, indicators, aiSummary, news, chartError or newsError.
StaleResultsDiscarded ==
    [][\A i \in Cycles :
          (cycles'[i] # cycles[i] /\ cycles[i].selected # selected)
          => UNCHANGED <<chartData, indicators, aiSummary, news, chartError, newsError>>]_vars

\* C2: a cycle whose AI-analysis request failed has still issued its news request.
AiFailureKeepsNewsPath ==
    \A i \in Cycles : cycles[i].outcome = "aiFailed" => cycles[i].newsRequest

\* C3: the news request is issued together with the AI-analysis request: whenever
\* a cycle has issued its AI-analysis request and not yet had the answer, its news
\* request is out as well.
NewsIssuedWithAnalysis ==
    \A i \in Cycles : cycles[i].pc = "ai" => cycles[i].newsRequest

\* C4: the step on which the OHLCV request of a cycle fails leaves chartData null,
\* the indicators cleared, a chart error set and the summary at the "no data" text.
OhlcvFailureClears ==
    [][\A i \in Cycles :
          Ends(i, "ohlcv", "ohlcvFailed")
          => /\ chartData' = Null
             /\ indicators' = ClearedIndicators
             /\ chartError' # Null
             /\ aiSummary' = NoDataText]_vars

\* C5: the step on which an OHLCV response without values arrives leaves chartData
\* null, every indicator shown as 'N/A', the summary 'No data to analyze.' and the
\* news empty, and ends the cycle; such a cycle never issues an AI-analysis or a
\* news request.
NoDataCycle ==
    /\ [][\A i \in Cycles :
             Ends(i, "ohlcv", "noData")
             => /\ chartData' = Null
                /\ \A f \in IndicatorFields : Shown(indicators'[f]) = NA
                /\ aiSummary' = NoDataText
                /\ news' = <<>>
                /\ cycles'[i].pc = "done"]_vars
    /\ [](\A i \in Cycles :
             cycles[i].outcome = "noData"
             => /\ cycles[i].pc = "done"
                /\ cycles[i].aiRequest = NoRequest
                /\ ~cycles[i].newsRequest)

\* C5 happens: a cycle ended without data after an earlier one had drawn a chart.
NoDataCycleReached ==
    \E i, j \in Cycles :
        /\ j < i
        /\ cycles[j].closePrices # <<>>
        /\ cycles[i].outcome = "noData"
        /\ chartData = Null
        /\ aiSummary = NoDataText

\* C6: the step on which the news request of a cycle fails empties the news, sets
\* newsError to the failure's message and changes none of aiSummary, chartData,
\* indicators and chartError; when no other cycle ran, aiSummary is the analysis
\* text of this cycle.
NewsFailureOnly ==
    [][\A i \in Cycles :
          Ends(i, "news", "newsFailed")
          => /\ news' = <<>>
             /\ cycles'[i].error # Null
             /\ newsError' = cycles'[i].error
             /\ UNCHANGED <<aiSummary, chartData, indicators, chartError>>
             /\ Len(cycles) = 1 => aiSummary' = AnalysisOf(cycles[i].aiRequest)]_vars

\* C6 happens: a news failure after the analysis of the same cycle was committed.
NewsFailureReached ==
    \E i \in Cycles :
        /\ cycles[i].outcome = "newsFailed"
        /\ news = <<>>
        /\ newsError = cycles[i].error
        /\ aiSummary = AnalysisOf(cycles[i].aiRequest)
        /\ chartError = Null

\* C7: the step on which the AI-analysis request of a cycle fails sets aiSummary
\* to the failure placeholder, which contains the message of that failure.
AiFailurePlaceholder ==
    [][\A i \in Cycles :
          Ends(i, "ai", "aiFailed")
          => /\ cycles'[i].error # Null
             /\ aiSummary' = AiErrorPrefix \o cycles'[i].error.v
             /\ Contains(aiSummary', cycles'[i].error.v)]_vars

\* C7 happens: the summary shows the message of a failed AI-analysis request.
AiFailureReached ==
    \E i \in Cycles :
        /\ cycles[i].outcome = "aiFailed"
        /\ Contains(cycles[i].error.v, <<"AI Analysis API Error: ">>)
        /\ Contains(aiSummary, cycles[i].error.v)

\* C8: a cycle issues its AI-analysis request only once its OHLCV response is in,
\* on the step that commits the indicator snapshot computed from that response,
\* and the request carries the rsi, macd, sma50 and sma200 of that snapshot.
StagesOrdered ==
    /\ [](\A i \in Cycles :
             /\ cycles[i].pc = "ohlcv"
                => cycles[i].aiRequest = NoRequest /\ cycles[i].closePrices = <<>>
             /\ cycles[i].aiRequest # NoRequest => cycles[i].closePrices # <<>>)
    /\ [][\A i \in Cycles :
             (cycles[i].aiRequest = NoRequest /\ cycles'[i].aiRequest # NoRequest)
             => /\ cycles[i].pc = "ohlcv"
                /\ indicators' = CurrentIndicators(cycles'[i].closePrices)
                /\ cycles'[i].aiRequest.rsi = indicators'.rsi
                /\ cycles'[i].aiRequest.macd = indicators'.macd
                /\ cycles'[i].aiRequest.sma50 = indicators'.sma50
                /\ cycles'[i].aiRequest.sma200 = indicators'.sma200]_vars

\* C8 happens: an AI-analysis request in flight that carries a computed RSI.
StagesOrderedReached ==
    \E i \in Cycles :
        /\ cycles[i].pc = "ai"
        /\ IsNumber(cycles[i].aiRequest.rsi)
        /\ cycles[i].aiRequest.rsi = indicators.rsi

\* The assets that have a rank are in ascending order of rank.
SortedByRank(cs) ==
    \A i, j \in 1..Len(cs) :
        (i < j /\ IsNumber(cs[i].cmcRank) /\ IsNumber(cs[j].cmcRank))
        => cs[i].cmcRank.v <= cs[j].cmcRank.v

\* sym is the symbol of an asset of lowest rank, if any asset has a rank.
LowestRanked(cs, sym) ==
    (\E i \in 1..Len(cs) : IsNumber(cs[i].cmcRank))
    => \E i \in 1..Len(cs) :
          /\ cs[i].symbol = sym
          /\ IsNumber(cs[i].cmcRank)
          /\ \A j \in 1..Len(cs) :
                IsNumber(cs[j].cmcRank) => cs[i].cmcRank.v <= cs[j].cmcRank.v

\* C9: the step on which the quote list arrives stores it sorted by rank
\* ascending, whatever its order and whether or not every asset has a rank, and
\* selects the asset of lowest rank when the list is not empty.
QuotesSortedLowestSelected ==
    [][(quotePending /\ ~quotePending' /\ initialDataError' = Null)
       => /\ SortedByRank(coins')
          /\ coins' # <<>> => LowestRanked(coins', selected')]_vars

\* C10: once the quote-list fetch has failed, initialDataError keeps its value,
\* exactly one quote-list request was ever issued and none is pending, the asset
\* list is empty and no cycle has issued an OHLCV, AI-analysis or news request.
QuoteFailureTerminal ==
    /\ [](initialDataError # Null
          => /\ coins = <<>>
             /\ cycles = <<>>
             /\ quoteRequests = 1
             /\ ~quotePending
             /\ ~loadingInitialData)
    /\ [][initialDataError # Null => initialDataError' = initialDataError]_vars

\* C10 happens: the quote-list fetch has failed.
QuoteFailureReached ==
    /\ initialDataError # Null
    /\ mounted
    /\ coins = <<>>
    /\ aiSummary = SelectCoinText

\* Every field of the snapshot is a number or the marker 'N/A'.
CompleteSnapshot(ind) ==
    \A f \in IndicatorFields : IsNumber(ind[f]) \/ ind[f] = NA

\* C20: the indicator snapshot is never partially updated.  In every state
\* indicators is the cleared value or a complete snapshot, each of its six
\* fields a finite number or 'N/A'; and every step that changes it stores the
\* cleared value or the snapshot computed from the close prices of the one
\* OHLCV response the step has received.
IndicatorsWhole ==
    /\ [](indicators = ClearedIndicators \/ CompleteSnapshot(indicators))
    /\ [][indicators' # indicators =>
             \/ indicators' = ClearedIndicators
             \/ \E i \in Cycles :
                   /\ cycles[i].pc = "ohlcv"
                   /\ cycles'[i].pc = "ai"
                   /\ indicators' = CurrentIndicators(cycles'[i].closePrices)]_vars

-----------------------------------------------------------------------------
(* Properties of the translation effects (TranslationSpec) *)

\* The calls of translateText that await their response.
Requests ==
    Cardinality(summaryJobs)
    + Cardinality(UNION {{<<j, k>> : k \in {n \in 1..Len(j.titles) : j.titles[n] = Undefined}} :
                            j \in newsJobs})

\* C11: translateText with target 'en' issues no request and resolves to its
\* input, whatever the text (here: the summary and every news title of every
\* reachable state); no call awaiting a response was made for 'en'; and no step
\* taken while the language is 'en' issues a request.
NoRequestForSourceLanguage ==
    /\ [](/\ ~NeedsRequest(aiSummary, "en")
          /\ Resolved(TitlePromises(news, "en"))
          /\ Retitled(news, TitlePromises(news, "en")) = news
          /\ \A j \in summaryJobs : j.language # "en"
          /\ \A j \in newsJobs : j.language # "en")
    /\ [][language = "en" => Requests' <= Requests]_vars

\* C11 witness: back in English after a stay in Turkish, with a summary and news
\* on display, untranslated, and nothing in flight.
NoRequestReached ==
    /\ language = "en"
    /\ toggles >= 2
    /\ effects = {}
    /\ news # <<>>
    /\ translatedNews = news
    /\ aiSummary # SelectCoinText
    /\ translatedAiSummary = aiSummary
    /\ Requests = 0

\* The cells of the pipeline that show a failure or hold its content.
FailureCells == <<chartError, newsError, initialDataError, aiSummary, news>>

\* C12: translation is best-effort.  Every step in which a translateText call
\* resolves leaves chartError, newsError, initialDataError, aiSummary and news
\* alone, and what it resolves to is the service's translation or, for every
\* failure, the original text: the result of the current summary run, and
\* every title result kept.
TranslationBestEffort ==
    /\ [][\A j \in summaryJobs :
             effects = {} /\ j \notin summaryJobs' =>
                 /\ UNCHANGED FailureCells
                 /\ StillCurrent(j) =>
                       translatedAiSummary' \in {ServiceTranslation(j.text, j.language), j.text}]_vars
    /\ [][\A j \in newsJobs :
             effects = {} /\ j \notin newsJobs' => UNCHANGED FailureCells]_vars
    /\ [](\A j \in newsJobs : \A k \in 1..Len(j.titles) :
             j.titles[k] # Undefined =>
                 j.titles[k].v \in {ServiceTranslation(j.news[k].title, j.language),
                                    j.news[k].title})

Mounted(jobs) == {j \in jobs : j.isMounted}

NewsBatchKeepsItems ==
    /\ [][translatedNews' # translatedNews =>
             \/ translatedNews' = <<>>
             \/ /\ Len(translatedNews') = Len(news)
                /\ \A i \in 1..Len(news) :
                      /\ translatedNews'[i].url = news[i].url
                      /\ translatedNews'[i].title \in
                            {ServiceTranslation(news[i].title, language), news[i].title}]_vars
    /\ [][\A j \in newsJobs :
             effects = {} /\ translatedNews' # translatedNews /\ j \notin newsJobs' =>
                 /\ StillCurrent(j)
                 /\ \E n \in 1..Len(j.titles) :
                       /\ j.titles[n] = Undefined
                       /\ \A k \in 1..Len(j.titles) : k # n => j.titles[k] # Undefined
                 /\ newsJobs' = newsJobs \ {j}]_vars

\* The lists the news endpoint answers with, and the empty list.
FetchedNews == {<<>>} \cup UNION {NewsLists(sym) : sym \in Symbols}

\* A step of the translation effects: a run is issued, cancelled, goes on or
\* ends, or translatedNews is written.
TranslationStep ==
    summaryJobs' # summaryJobs \/ newsJobs' # newsJobs \/ translatedNews' # translatedNews

\* C19: the untranslated titles stay authoritative.  news always holds a list
\* as fetched (or the empty list) and changes only in a step of the detail
\* effect that calls setNews; no step of the translation effects behind the
\* first render writes a cell of the pipeline; and the news in the body of every
\* AI-analysis request is a list as fetched.
UntranslatedNewsAuthoritative ==
    /\ [](news \in FetchedNews)
    /\ [](\A i \in 1..Len(cycles) :
             /\ cycles[i].news \in FetchedNews
             /\ cycles[i].aiRequest # NoRequest => cycles[i].aiRequest.news \in FetchedNews)
    /\ [][news' # news => NewsWrites' # NewsWrites /\ ~TranslationStep]_vars
    /\ [][mounted /\ TranslationStep => UNCHANGED pipelineVars]_vars

\* C19 witness: the titles of the first coin's news are on display in Turkish,
\* news still holds them as fetched, and the second coin's AI-analysis request
\* has been issued with that list.
UntranslatedNewsReached ==
    /\ language = "tr"
    /\ effects = {}
    /\ news # <<>>
    /\ translatedNews = Retitled(news, [k \in 1..Len(news) |->
                                          Str(ServiceTranslation(news[k].title, "tr"))])
    /\ \E i \in 1..Len(cycles) :
          /\ cycles[i].aiRequest # NoRequest
          /\ cycles[i].aiRequest.news = news

-----------------------------------------------------------------------------
(* Properties of the typewriter (TypewriterSpec) *)

\* The stripped text on display.
PlainText == stripMarkdown(translatedAiSummary)

\* Between two replacements of the display text the count stays or grows by one
\* per step; a replacement is over when the typewriter effect it made due has run.
RevealGrowsByOne ==
    [][translatedAiSummary' = translatedAiSummary /\ "typewriter" \notin effects =>
          visibleCharacters' \in {visibleCharacters, visibleCharacters + 1}]_vars

\* C15: in every state visibleCharacters is at most the length of the stripped
\* display text, and between two replacements of that text it never decreases
\* and grows by at most one per tick.  The bound is stated for a display text
\* that is not empty, which leaves out the empty translation of C12.
RevealWithinText ==
    /\ [](translatedAiSummary # <<>> => visibleCharacters <= Len(PlainText))
    /\ RevealGrowsByOne

\* A run of runTranslation ends in this step with its write of the display
\* text: at once (the empty summary, language 'en') when the effect runs after
\* a change of aiSummary or language, or when the current run's translateText
\* resolves.
SummaryRunEnds ==
    \/ /\ mounted
       /\ "runTranslation" \in effects
       /\ \A j \in summaryJobs' : ~j.isMounted
    \/ /\ effects = {}
       /\ \E j \in summaryJobs : StillCurrent(j) /\ j \notin summaryJobs'

\* C16: every replacement of the typewriter's source restarts the reveal.  When
\* the translation run started by a new summary or a new language ends, the
\* typewriter effect is due, so that visibleCharacters is reset to 0 and a new
\* interval starts, also when the text written equals the text on display.
ReplacementRestartsReveal ==
    [][SummaryRunEnds => "typewriter" \in effects']_vars

\* C17: displayedAiSummary is the prefix of the stripped display text that
\* visibleCharacters gives (stated for the states in which no effect is due: the
\* text on display follows the count one commit later), and once the reset of
\* a replaced text has run (count 0) the text on display is not a non-empty
\* piece of the new text, cut at the count of the text before.
NoPartialCarryover ==
    /\ [](effects = {} => displayedAiSummary = Slice(PlainText, visibleCharacters))
    /\ [](mounted /\ visibleCharacters = 0 /\ "typewriter" \notin effects =>
             ~(/\ displayedAiSummary # <<>>
               /\ displayedAiSummary = Slice(PlainText, Len(displayedAiSummary))))

\* The interval's callback runs in this step.
Ticks == effects = {} /\ (visibleCharacters' # visibleCharacters \/ timers' # timers)

\* C18: at most one interval is live, and once the effects of a commit have run
\* it is the one of the text on display (the one before was cleared); a tick at
\* the full length clears the interval and leaves the count; an interval is
\* cleared by a tick only at the full length; and with no interval live the
\* count changes only by the reset of a replaced text.
OneTimer ==
    /\ [](Len(timers) <= 1)
    /\ [](effects = {} /\ timers # <<>> => timers[1].plainAiSummary = PlainText)
    /\ [][Ticks /\ visibleCharacters = Len(PlainText) =>
             timers' = <<>> /\ visibleCharacters' = visibleCharacters]_vars
    /\ [][Ticks /\ timers' = <<>> => visibleCharacters = Len(PlainText)]_vars
    /\ [][mounted /\ timers = <<>> /\ "typewriter" \notin effects =>
             timers' = <<>> /\ visibleCharacters' = visibleCharacters]_vars

\* C18 witness: the translated summary of a coin has been revealed to its full
\* length and its interval has been cleared, in the second stay in Turkish.
OneTimerReached ==
    /\ effects = {}
    /\ timers = <<>>
    /\ language = "tr"
    /\ toggles = 3
    /\ translatedAiSummary = ServiceTranslation(aiSummary, "tr")
    /\ \E i \in 1..Len(cycles) :
          cycles[i].aiRequest # NoRequest /\ aiSummary = AnalysisOf(cycles[i].aiRequest)
    /\ visibleCharacters = Len(PlainText)
    /\ Len(PlainText) < Len(translatedAiSummary)
    /\ displayedAiSummary = PlainText

-----------------------------------------------------------------------------
(* Properties of the indicator snapshot over close-price series (SeriesSpec) *)

\* Cycle i takes the step that commits chartData and the indicator snapshot of
\* its OHLCV response.
CommitsSnapshot(i) == cycles[i].pc = "ohlcv" /\ cycles'[i].pc = "ai"

\* The series holds at least two distinct prices.
Distinct(prices) == \E a, b \in 1..Len(prices) : prices[a] # prices[b]

\* The series holds the one price p throughout.
AllEqual(prices, p) == \A k \in 1..Len(prices) : prices[k] = Num(p)

\* x is a number within [0, 100].
Percentage(x) == IsNumber(x) /\ 0 <= x.v /\ x.v <= 100 * SCALE

\* The step that commits a series commits an RSI that is 'N/A' below `least`
\* prices, and a number within [0, 100] from `least` prices on when two of
\* them differ.
RsiAvailableFrom(least) ==
    \A i \in Cycles :
        CommitsSnapshot(i) =>
            LET c == cycles'[i].closePrices
            IN /\ Len(c) < least => indicators'.rsi = NA
               /\ (Len(c) >= least /\ Distinct(c)) => Percentage(indicators'.rsi)

\* C21 as stated: for every close-price series of fewer than 14 prices the
\* committed RSI is 'N/A', and for every series of 14 prices or more with at
\* least two distinct prices it is a number within [0, 100].
RsiFromPeriodPrices == [][RsiAvailableFrom(RsiPeriod)]_vars

\* C21 amended: the RSI of period 14 needs 14 price changes.  For every
\* close-price series of fewer than 15 prices the committed RSI is 'N/A', and
\* for every series of 15 prices or more with at least two distinct prices it
\* is a number within [0, 100].
RsiFromPeriodChanges == [][RsiAvailableFrom(RsiPeriod + 1)]_vars

\* C21 happens: a series of exactly 15 prices, two of them distinct, has been
\* committed with an RSI strictly between 0 and 100.
RsiOfFifteenReached ==
    \E i \in Cycles :
        /\ cycles[i].pc = "ai"
        /\ Len(cycles[i].closePrices) = RsiPeriod + 1
        /\ Distinct(cycles[i].closePrices)
        /\ Percentage(indicators.rsi)
        /\ indicators.rsi.v \notin {0, 100 * SCALE}

\* x is the price p as it stands, in SCALE units.
ExactPrice(x, p) == x = Num(p * SCALE)

\* x is the price p rounded to four decimals: the multiple of FourDecimals
\* nearest to it.
RoundedPrice(x, p) ==
    /\ IsNumber(x)
    /\ x.v % FourDecimals = 0
    /\ 2 * (x.v - p * SCALE) <= FourDecimals
    /\ 2 * (p * SCALE - x.v) <= FourDecimals

\* The step that commits a series flat at p commits, for either moving
\* average, 'N/A' below its period and a number that Is(_, p) from it on.
SmaOfFlat(Is(_, _)) ==
    \A i \in Cycles, p \in FlatPrices :
        (CommitsSnapshot(i) /\ AllEqual(cycles'[i].closePrices, p)) =>
            LET n == Len(cycles'[i].closePrices)
            IN /\ n < Sma50Period => indicators'.sma50 = NA
               /\ n >= Sma50Period => Is(indicators'.sma50, p)
               /\ n < Sma200Period => indicators'.sma200 = NA
               /\ n >= Sma200Period => Is(indicators'.sma200, p)

MacdOfFlat(line, signal) ==
    \A i \in Cycles, p \in FlatPrices :
        (CommitsSnapshot(i) /\ AllEqual(cycles'[i].closePrices, p)) =>
            LET n == Len(cycles'[i].closePrices)
            IN /\ indicators'.macdHistogram \in {Num(0), NA}
               /\ n < line => indicators'.macd = NA
               /\ n < signal =>
                     /\ indicators'.macdSignal = NA
                     /\ indicators'.macdHistogram = NA

\* C23 as stated: for every close-price series of identical values the
\* committed MACD histogram is exactly 0 whenever it is defined, and macd,
\* macdSignal and macdHistogram are all 'N/A' until at least slow period plus
\* signal period (26 + 9) points exist.
MacdOfFlatFromSum ==
    [][MacdOfFlat(SlowPeriod + SignalPeriod, SlowPeriod + SignalPeriod)]_vars

\* C23 amended: for every close-price series of identical values the
\* committed MACD histogram is exactly 0 whenever it is defined, macd is 'N/A'
\* until at least slow period (26) points exist, and macdSignal and
\* macdHistogram are 'N/A' until at least slow period plus signal period
\* minus one (34) points exist.
MacdOfFlatFromWindows ==
    [][MacdOfFlat(SlowPeriod, SlowPeriod + SignalPeriod - 1)]_vars

\* C23 happens: a flat series of 34 points has been committed, with macd and
\* the histogram defined and 0.
MacdOfFlatReached ==
    \E i \in Cycles, p \in FlatPrices :
        /\ cycles[i].pc = "ai"
        /\ Len(cycles[i].closePrices) = SlowPeriod + SignalPeriod - 1
        /\ AllEqual(cycles[i].closePrices, p)
        /\ indicators.macd = Num(0)
        /\ indicators.macdHistogram = Num(0)

-----------------------------------------------------------------------------
(* Properties of the detail cycle's failures and loading flags (Spec) *)

\* Cycle i has ended in a failure: a request failed, or the OHLCV response
\* held no values.
Failed(i) == cycles[i].outcome \notin {"running", "ok"}

\* C24: after a detail cycle has ended in failure nothing is retried.  The
\* failed cycle issues no further request (it never changes again), and a
\* step issues the OHLCV request of a new cycle only if it changes the
\* selected symbol or the asset list.  The step on which a request of a
\* cycle fails ends the cycle and stores the error in the state: in newsError,
\* and in chartError as well unless it is the news request that failed.
NoAutomaticRetry ==
    [][/\ \A i \in Cycles : Failed(i) => cycles'[i] = cycles[i]
       /\ ((\E i \in Cycles : Failed(i)) /\ Len(cycles') > Len(cycles)) =>
             (selected' # selected \/ coins' # coins)
       /\ \A i \in Cycles :
             (cycles[i].error = Null /\ cycles'[i].error # Null) =>
                 /\ cycles'[i].pc = "done"
                 /\ newsError' = cycles'[i].error
                 /\ cycles'[i].outcome # "newsFailed" => chartError' = cycles'[i].error]_vars

\* C24 happens: a cycle has ended in a failed request, its error is in the
\* state, and nothing is in flight.
FailedAndIdle ==
    /\ \E i \in Cycles : Failed(i) /\ cycles[i].error # Null /\ newsError = cycles[i].error
    /\ \A i \in Cycles : cycles[i].pc = "done"
    /\ ~quotePending

\* C25: the chart loading flag always clears.  Once every run of the detail
\* effect has finished (none awaits a response, and the quote list is not
\* awaited either, so that no further run is due), among them the runs that
\* returned early because the selected symbol is in no asset of the list,
\* chartLoading is false.
ChartLoadingClears ==
    (mounted /\ ~quotePending /\ \A i \in Cycles : cycles[i].pc = "done")
        => chartLoading = FALSE

\* C26: the loading flags reflect the live cycle.  Whenever the latest cycle
\* is the one of the selected symbol and still has a request in flight,
\* chartLoading and newsLoading are true.
LoadingFlagsLive ==
    (/\ cycles # <<>>
     /\ cycles[Len(cycles)].selected = selected
     /\ cycles[Len(cycles)].pc # "done") => (chartLoading /\ newsLoading)

\* C27: no detail request is issued for a symbol that is not in the asset
\* list.  Every step that ends with the page mounted and the selected symbol
\* in no asset (the list is empty included) issues no request (no cycle
\* starts, none moves on; none has been started before) and leaves chartData
\* null, the indicators cleared, the news list empty and the summary at the
\* "select a coin" text.
NoRequestWithoutAsset ==
    [][(mounted' /\ FindCoin(coins', selected') = Undefined) =>
          /\ cycles' = cycles
          /\ cycles' = <<>>
          /\ chartData' = Null
          /\ indicators' = ClearedIndicators
          /\ news' = <<>>
          /\ aiSummary' = SelectCoinText]_vars

\* C27 happens: the quote list has come back empty, and the detail effect has
\* run a second time without a coin to load.
EmptyListReached ==
    /\ mounted
    /\ ~quotePending
    /\ initialDataError = Null
    /\ coins = <<>>
    /\ cycles = <<>>
    /\ aiSummary = SelectCoinText

\* C28: the news embedded in the AI-analysis request of a cycle for symbol S
\* is empty or a news list fetched for S, never the list fetched for a symbol
\* selected before.
AnalysisNewsOfOwnSymbol ==
    \A i \in Cycles :
        cycles[i].aiRequest # NoRequest =>
            \/ cycles[i].aiRequest.news = <<>>
            \/ cycles[i].aiRequest.news \in NewsLists(cycles[i].selected)

\* C29: a failure of the AI-analysis request leaves the chart and indicator
\* state of the cycle untouched.  The step on which the AI-analysis request of
\* a cycle fails changes none of chartData, indicators and chartError.
AiFailureKeepsChart ==
    [][\A i \in Cycles :
          Ends(i, "ai", "aiFailed") => UNCHANGED <<chartData, indicators, chartError>>]_vars

-----------------------------------------------------------------------------
(* Properties of a language change (TranslationSpec) *)

\* C30: a language change is a translation-only trigger.  The step that
\* changes the language, and the run of the effects that follows it (any run
\* of the display effects), issues no quote-list, OHLCV, AI-analysis or news
\* request and leaves selected, coins, chartData, indicators, aiSummary, news,
\* chartError and newsError unchanged, and the loading flags and the quote
\* list's error with them: only the cells of the display layer change.
LanguageChangeTranslatesOnly ==
    [][(language' # language \/ (mounted /\ effects # {})) =>
          /\ UNCHANGED <<quoteRequests, quotePending, cycles>>
          /\ UNCHANGED <<selected, coins, chartData, indicators, aiSummary, news,
                         chartError, newsError>>
          /\ UNCHANGED <<chartLoading, newsLoading, loadingInitialData,
                         initialDataError>>]_vars

\* C30 happens: with a chart and a summary committed the language has been
\* changed, and the translation of the summary is awaited.
LanguageChangedReached ==
    /\ toggles > 0
    /\ language # "en"
    /\ chartData # Null
    /\ \E i \in Cycles : cycles[i].pc = "done" /\ cycles[i].outcome = "ok"
    /\ summaryJobs # {}

-----------------------------------------------------------------------------
(* Properties of the quote-list fetch over a session (TranslationSpec) *)

\* C33: the quote list is fetched exactly once per session, at startup.  After
\* every step one request has been issued if the page is mounted; no step
\* of the mounted page (a selection change, a language change, an outcome of
\* a detail cycle, a translation) issues another; and the asset list is
\* written by the answer to that request only, so at most once.
QuoteListFetchedOnce ==
    [][/\ quoteRequests' = IF mounted' THEN 1 ELSE 0
       /\ mounted =>
             /\ quoteRequests' = quoteRequests
             /\ ~quotePending => (~quotePending' /\ coins' = coins)
             /\ coins' # coins => (quotePending /\ ~quotePending')]_vars

\* C33 happens: after the startup fetch the user has changed the selection
\* and the language, a detail cycle has ended, and one quote-list request
\* has been issued in all.
SessionAfterStartup ==
    /\ quoteRequests = 1
    /\ ~quotePending
    /\ coins # <<>>
    /\ Len(cycles) > 1
    /\ toggles > 0
    /\ \E i \in Cycles : cycles[i].pc = "done"

-----------------------------------------------------------------------------
(* Properties of the display caches at rest (TranslationSpec) *)

\* `shown` is what the display may hold for `text` in the current language:
\* the text itself in 'en', its translation or (after a failed translation)
\* the text itself otherwise.
ShowsCurrent(shown, text) ==
    IF language = "en" \/ text = <<>> THEN shown = text
    ELSE shown \in {ServiceTranslation(text, language), text}

\* C31: the display caches converge to the current content.  Once no
\* translation request is in flight and no effect is pending,
\* translatedAiSummary is aiSummary in 'en' and the translation of the current
\* aiSummary (or aiSummary itself) otherwise, and translatedNews has one entry
\* per item of the current news list, with the item's url and its title or
\* the translation of its title.
DisplayCachesConverge ==
    (mounted /\ effects = {} /\ summaryJobs = {} /\ newsJobs = {}) =>
        /\ ShowsCurrent(translatedAiSummary, aiSummary)
        /\ Len(translatedNews) = Len(news)
        /\ \A k \in 1..Len(news) :
              /\ translatedNews[k].url = news[k].url
              /\ ShowsCurrent(translatedNews[k].title, news[k].title)

-----------------------------------------------------------------------------
(* Properties of the reveal under fair ticks (TypewriterFairSpec) *)

\* The whole stripped display text is revealed and on display.
Revealed == visibleCharacters = Len(PlainText) /\ displayedAiSummary = PlainText

\* C32: the reveal completes.  Under fair ticks, time and again the display
\* text is empty or revealed in full, so that a text that is not empty and is
\* not replaced again ends with visibleCharacters at the length of the
\* stripped text and displayedAiSummary the whole stripped text; and once the
\* effects of an empty display text have run, displayedAiSummary is empty,
\* visibleCharacters is 0 and no interval is live.
RevealCompletes ==
    /\ []<>(~mounted \/ translatedAiSummary = <<>> \/ Revealed)
    /\ []((mounted /\ effects = {} /\ translatedAiSummary = <<>>) =>
             /\ displayedAiSummary = <<>>
             /\ visibleCharacters = 0
             /\ timers = <<>>)

\* C32 happens: a display text of more than one unit, written after a reveal
\* had begun, is revealed in full while its interval is still live.
RevealedInFull ==
    /\ mounted
    /\ effects = {}
    /\ Len(PlainText) > 1
    /\ Revealed
    /\ timers # <<>>
    /\ toggles > 0

=============================================================================
